---- MODULE Spec2Model ----
(***************************************************************************)
(* Train-once / serve-many prediction service (src/app.py) and the         *)
(* one-shot training script (src/model.py).                                *)
(*                                                                         *)
(* The scikit-learn, joblib and dataset libraries are external             *)
(* collaborators.  They are represented by small deterministic stand-ins   *)
(* that keep the properties the program relies on: a fitted classifier     *)
(* answers with one of the class labels seen in training, a fit is a       *)
(* function of the training rows (and of the seed, where the estimator     *)
(* draws random numbers), and input validation rejects rows that are not   *)
(* numeric or do not have the arity seen in training.                      *)
(***************************************************************************)
EXTENDS Integers, Sequences, FiniteSets, TLC

-----------------------------------------------------------------------------
(* Bounds *)

\* number of request slots served concurrently
MaxRequests == 2
\* number of runs of the training script
MaxRuns == 2
\* values the process-wide random generator may have been seeded with
MaxEntropy == 2

-----------------------------------------------------------------------------
(* Program constants *)

\* test_size=0.2, as a percentage
test_size == 20
\* random_state=42
random_state == 42
\* n_estimators=50
n_estimators == 50

-----------------------------------------------------------------------------
(* Values *)

Num(n) == [num |-> TRUE, v |-> n]
Str == [num |-> FALSE, v |-> 0]

Row(a, b, c, d) == <<Num(a), Num(b), Num(c), Num(d)>>

\* load_iris(): ten rows of the data set, measurements in tenths of a cm
load_iris ==
  << [x |-> Row(51, 35, 14, 2),  y |-> 0],
     [x |-> Row(49, 30, 14, 2),  y |-> 0],
     [x |-> Row(47, 32, 13, 2),  y |-> 0],
     [x |-> Row(70, 32, 47, 14), y |-> 1],
     [x |-> Row(64, 32, 45, 15), y |-> 1],
     [x |-> Row(69, 31, 49, 15), y |-> 1],
     [x |-> Row(63, 33, 60, 25), y |-> 2],
     [x |-> Row(58, 27, 51, 19), y |-> 2],
     [x |-> Row(71, 30, 59, 21), y |-> 2],
     [x |-> Row(63, 29, 56, 18), y |-> 2] >>

Labels == {0, 1, 2}

-----------------------------------------------------------------------------
(* Library stand-ins: seeded random numbers and the train/test split *)

\* k-th draw of a generator seeded with seed
Rand(seed, k) == (seed * 7919 + k * 104729 + 12345) % 65521

InsertAt(s, pos, e) == SubSeq(s, 1, pos - 1) \o <<e>> \o SubSeq(s, pos, Len(s))

RECURSIVE Permutation(_, _)
Permutation(n, seed) ==
  IF n = 0 THEN <<>>
  ELSE InsertAt(Permutation(n - 1, seed), (Rand(seed, n) % n) + 1, n)

\* train_test_split(X, y, test_size, random_state): the first ceil(test_size*n)
\* entries of a seeded permutation are the test rows, the others the train rows
train_test_split(data, size, seed) ==
  LET n      == Len(data)
      n_test == (n * size + 99) \div 100
      perm   == Permutation(n, seed)
      test   == SubSeq(perm, 1, n_test)
      train  == SubSeq(perm, n_test + 1, n)
  IN [X_train |-> [i \in 1..Len(train) |-> data[train[i]].x],
      X_test  |-> [i \in 1..Len(test)  |-> data[test[i]].x],
      y_train |-> [i \in 1..Len(train) |-> data[train[i]].y],
      y_test  |-> [i \in 1..Len(test)  |-> data[test[i]].y]]

-----------------------------------------------------------------------------
(* Library stand-ins: input validation shared by the estimators *)

IsNumeric(sample) == \A i \in 1..Len(sample) : sample[i].num

Features(sample) == [i \in 1..Len(sample) |-> sample[i].v]

RECURSIVE SumSeq(_)
SumSeq(s) == IF s = <<>> THEN 0 ELSE Head(s) + SumSeq(Tail(s))

Dot(a, b) == SumSeq([i \in 1..Len(a) |-> a[i] * b[i]])

RECURSIVE SortedSeq(_)
SortedSeq(S) ==
  IF S = {} THEN <<>>
  ELSE LET m == CHOOSE a \in S : \A b \in S : a <= b
       IN <<m>> \o SortedSeq(S \ {m})

\* index of the first maximum, as numpy.argmax
ArgMax(s) == CHOOSE i \in 1..Len(s) :
               /\ \A j \in 1..Len(s) : s[j] <= s[i]
               /\ \A j \in 1..(i - 1) : s[j] < s[i]

-----------------------------------------------------------------------------
(* Library stand-in: LogisticRegression, a linear classifier *)

\* the name model before line 10 binds it
Unbound ==
  [cls |-> "unbound", fitted |-> FALSE, classes |-> <<>>, coef |-> <<>>,
   intercept |-> <<>>, n_features_in |-> 0]

\* LogisticRegression(max_iter=200) before fit
LogisticRegression ==
  [cls |-> "LogisticRegression", fitted |-> FALSE, classes |-> <<>>,
   coef |-> <<>>, intercept |-> <<>>, n_features_in |-> 0]

\* model.fit(X, y): one linear score per class seen in y; the weights are a
\* function of the training rows only (the solver draws no random numbers)
LogisticRegressionFit(X, y) ==
  LET classes == SortedSeq({y[i] : i \in 1..Len(y)})
      idx(c)  == {i \in 1..Len(y) : y[i] = c}
      cnt(c)  == Cardinality(idx(c))
      d       == Len(X[1])
      S(c)    == [f \in 1..d |-> SumSeq([i \in 1..Len(y) |->
                                   IF y[i] = c THEN X[i][f].v ELSE 0])]
      RECURSIVE Prod(_)
      Prod(k) == IF k = 0 THEN 1 ELSE cnt(classes[k]) * Prod(k - 1)
      P       == Prod(Len(classes))
      w(c)    == P \div cnt(c)
  IN [cls |-> "LogisticRegression",
      fitted |-> TRUE,
      classes |-> classes,
      coef |-> [k \in 1..Len(classes) |->
                 [f \in 1..d |-> 2 * P * w(classes[k]) * S(classes[k])[f]]],
      intercept |-> [k \in 1..Len(classes) |->
                 -(w(classes[k]) * w(classes[k])
                   * Dot(S(classes[k]), S(classes[k])))],
      n_features_in |-> d]

\* mutant: the position of the highest score instead of the class label
LinearLabelPosition(m, x) ==
  ArgMax([k \in 1..Len(m.classes) |-> Dot(m.coef[k], x) + m.intercept[k]])

\* label of the highest score: classes_[argmax(decision_function(x))]
LinearLabel(m, x) ==
  m.classes[ArgMax([k \in 1..Len(m.classes) |->
                     Dot(m.coef[k], x) + m.intercept[k]])]

Return(l) == [ok |-> TRUE, label |-> l, exc |-> "none"]
Raise(e) == [ok |-> FALSE, label |-> -1, exc |-> e]

\* int(model.predict([sample])[0]) with the module-level model m
train_and_predict(m, sample) ==
  IF ~m.fitted THEN Raise("NotFittedError")
  ELSE IF ~IsNumeric(sample) THEN Raise("ValueError")
  ELSE IF Len(sample) # m.n_features_in THEN Raise("ValueError")
  ELSE Return(LinearLabel(m, Features(sample)))

-----------------------------------------------------------------------------
(* Serving process: state *)

VARIABLES
  pc,        \* position of the module-level code of src/app.py
  iris,      \* the loaded data set
  X_train, X_test, y_train, y_test,
  model,     \* the module-level classifier
  req,       \* request slots of the HTTP layer
  tpc,       \* position of the training script, src/model.py
  main,      \* the local variables of main()
  fs,        \* file system: directories and files
  stdout,    \* lines printed by the current run
  exc,       \* the exception that ended the current run
  entropy,   \* seed of the process-wide random generator of the current run
  runs,      \* runs started
  log        \* what each completed run printed and wrote

dataVars == <<iris, X_train, X_test, y_train, y_test>>
serveVars == <<pc, iris, X_train, X_test, y_train, y_test, model, req>>
trainVars == <<tpc, main, fs, stdout, exc, entropy, runs, log>>
vars == <<serveVars, trainVars>>

Slots == 1..MaxRequests

NoOutcome == [ok |-> FALSE, label |-> -1, exc |-> "none"]
NoResponse == [status |-> 0, text |-> "", prediction |-> -1]
NoBody == [present |-> FALSE, input |-> <<>>]
Idle == [st |-> "idle", route |-> "", body |-> NoBody, out |-> NoOutcome,
         resp |-> NoResponse]

\* feature vectors a client sends, in tenths: the sample of tests/test_app.py,
\* one row near each class, one between two classes, all zeros, negative
\* values, and values far above the data
ValidSamples ==
  { Row(51, 35, 14, 2), Row(64, 32, 45, 15), Row(63, 33, 60, 25),
    Row(62, 30, 50, 17), Row(0, 0, 0, 0), Row(-10, -20, -30, -40),
    Row(900, 10, 900, 10) }

\* wrong arity, and values that are not numbers
MalformedSamples == { <<Num(1), Num(2)>>, <<Str, Str, Str, Str>> }

PredictBodies ==
  {[present |-> TRUE, input |-> s] : s \in ValidSamples \cup MalformedSamples}
    \cup {NoBody}

IsValidBody(b) == b.present /\ b.input \in ValidSamples

InitServe ==
  /\ pc = "import"
  /\ iris = <<>>
  /\ X_train = <<>> /\ X_test = <<>> /\ y_train = <<>> /\ y_test = <<>>
  /\ model = Unbound
  /\ req = [r \in Slots |-> Idle]

-----------------------------------------------------------------------------
(* Serving process: module-level code of src/app.py *)

\* iris = load_iris()
LoadIris ==
  /\ pc = "import"
  /\ iris' = load_iris
  /\ pc' = "split"
  /\ UNCHANGED <<X_train, X_test, y_train, y_test, model, req, trainVars>>

\* X_train, X_test, y_train, y_test = train_test_split(..., random_state=42)
TrainTestSplit ==
  /\ pc = "split"
  /\ LET s == train_test_split(iris, test_size, random_state)
     IN /\ X_train' = s.X_train
        /\ X_test' = s.X_test
        /\ y_train' = s.y_train
        /\ y_test' = s.y_test
  /\ pc' = "construct"
  /\ UNCHANGED <<iris, model, req, trainVars>>

\* mutant: the module finishes loading with the model constructed, not fitted
ConstructModelOnly ==
  /\ pc = "construct"
  /\ model' = LogisticRegression
  /\ pc' = "ready"
  /\ UNCHANGED <<dataVars, req, trainVars>>

\* model = LogisticRegression(max_iter=200)
ConstructModel ==
  /\ pc = "construct"
  /\ model' = LogisticRegression
  /\ pc' = "fit"
  /\ UNCHANGED <<dataVars, req, trainVars>>

\* model.fit(X_train, y_train); the rest of the module only defines
\* train_and_predict, so the module is loaded once the fit returns
FitModel ==
  /\ pc = "fit"
  /\ model' = LogisticRegressionFit(X_train, y_train)
  /\ pc' = "ready"
  /\ UNCHANGED <<dataVars, req, trainVars>>

-----------------------------------------------------------------------------
(* HTTP layer of the service: routing and responses *)

HomeText == "ML Flask App Running!"

\* mutant: the status route reports an error
HomeUnavailable(r) ==
  /\ req[r].st = "received"
  /\ req[r].route = "home"
  /\ req' = [req EXCEPT ![r].st = "responded",
                        ![r].resp = [status |-> 503, text |-> "",
                                     prediction |-> -1]]
  /\ UNCHANGED <<pc, dataVars, model, trainVars>>

\* a request arrives at a free slot; requests are accepted once the module
\* has been loaded
Receive(r, route, body) ==
  /\ pc = "ready"
  /\ req[r].st \in {"idle", "responded"}
  /\ req' = [req EXCEPT ![r] = [st |-> "received", route |-> route,
                                body |-> body, out |-> NoOutcome,
                                resp |-> NoResponse]]
  /\ UNCHANGED <<pc, dataVars, model, trainVars>>

\* GET /
Home(r) ==
  /\ req[r].st = "received"
  /\ req[r].route = "home"
  /\ req' = [req EXCEPT ![r].st = "responded",
                        ![r].resp = [status |-> 200, text |-> HomeText,
                                     prediction |-> -1]]
  /\ UNCHANGED <<pc, dataVars, model, trainVars>>

\* POST /predict without the input field: the lookup of the field raises
MissingField(r) ==
  /\ req[r].st = "received"
  /\ req[r].route = "predict"
  /\ ~req[r].body.present
  /\ req' = [req EXCEPT ![r].st = "returned", ![r].out = Raise("KeyError")]
  /\ UNCHANGED <<pc, dataVars, model, trainVars>>

\* POST /predict, after the call: the label as JSON with 200, or the
\* framework's 500 for an exception the handler let through
Respond(r) ==
  /\ req[r].st = "returned"
  /\ req' = [req EXCEPT
       ![r].st = "responded",
       ![r].resp = IF req[r].out.ok
                   THEN [status |-> 200, text |-> "",
                         prediction |-> req[r].out.label]
                   ELSE [status |-> 500, text |-> "", prediction |-> -1]]
  /\ UNCHANGED <<pc, dataVars, model, trainVars>>

-----------------------------------------------------------------------------
(* train_and_predict, src/app.py *)

Calling(r) ==
  /\ req[r].st = "received"
  /\ req[r].route = "predict"
  /\ req[r].body.present

\* mutant: the sample is appended to the training rows under the label just
\* predicted and the model is fitted again
TrainAndPredictOnline(r) ==
  /\ Calling(r)
  /\ LET sample == req[r].body.input
         out    == train_and_predict(model, sample)
     IN /\ req' = [req EXCEPT ![r].st = "returned", ![r].out = out]
        /\ IF out.ok
           THEN /\ X_train' = Append(X_train, sample)
                /\ y_train' = Append(y_train, out.label)
                /\ model' = LogisticRegressionFit(X_train', y_train')
           ELSE UNCHANGED <<X_train, y_train, model>>
  /\ UNCHANGED <<pc, iris, X_test, y_test, trainVars>>

\* mutant: every call splits the data again, unseeded, and fits a new model
TrainAndPredictRetrain(r) ==
  /\ Calling(r)
  /\ \E e \in 0..MaxEntropy :
       LET s == train_test_split(iris, test_size, e)
       IN /\ X_train' = s.X_train
          /\ X_test' = s.X_test
          /\ y_train' = s.y_train
          /\ y_test' = s.y_test
          /\ model' = LogisticRegressionFit(s.X_train, s.y_train)
  /\ req' = [req EXCEPT ![r].st = "returned",
                        ![r].out = train_and_predict(model', req[r].body.input)]
  /\ UNCHANGED <<pc, iris, trainVars>>

\* mutant: the sample is passed through a variable shared by the requests in
\* flight, so the call may read the sample of another request
TrainAndPredictShared(r) ==
  /\ Calling(r)
  /\ \E q \in Slots :
       /\ req[q].st = "received"
       /\ req[q].route = "predict"
       /\ req[q].body.present
       /\ req' = [req EXCEPT ![r].st = "returned",
                    ![r].out = train_and_predict(model, req[q].body.input)]
  /\ UNCHANGED <<pc, dataVars, model, trainVars>>

\* def train_and_predict(sample): return int(model.predict([sample])[0])
\* reads the module-level model; assigns nothing outside the call
TrainAndPredict(r) ==
  /\ Calling(r)
  /\ req' = [req EXCEPT ![r].st = "returned",
                        ![r].out = train_and_predict(model, req[r].body.input)]
  /\ UNCHANGED <<pc, dataVars, model, trainVars>>

NextServe ==
  \/ LoadIris
  \/ TrainTestSplit
  \/ ConstructModel
  \/ FitModel
  \/ \E r \in Slots : Receive(r, "home", NoBody)
  \/ \E r \in Slots : \E b \in PredictBodies : Receive(r, "predict", b)
  \/ \E r \in Slots : Home(r)
  \/ \E r \in Slots : MissingField(r)
  \/ \E r \in Slots : TrainAndPredict(r)
  \/ \E r \in Slots : Respond(r)


-----------------------------------------------------------------------------
(* Library stand-in: RandomForestClassifier, bootstrapped voters *)

\* RandomForestClassifier(n_estimators=n, random_state=rs) before fit;
\* random_state -1 stands for None
RandomForestClassifier(n, rs) ==
  [cls |-> "RandomForestClassifier", n_estimators |-> n, random_state |-> rs,
   fitted |-> FALSE, classes |-> <<>>, estimators |-> <<>>,
   X |-> <<>>, y |-> <<>>, n_features_in |-> 0]

\* check_random_state: an integer seeds a fresh generator, None falls back to
\* the process-wide generator
EffectiveSeed(rs, e) == IF rs = -1 THEN e ELSE rs

\* model.fit(X, y): each estimator learns a bootstrap sample of the training
\* rows drawn from the seeded generator
RandomForestFit(m, X, y, e) ==
  LET n    == Len(X)
      seed == EffectiveSeed(m.random_state, e)
  IN [m EXCEPT
        !.fitted = TRUE,
        !.classes = SortedSeq({y[i] : i \in 1..n}),
        !.estimators = [t \in 1..m.n_estimators |->
                          [j \in 1..n |-> (Rand(seed, t * n + j) % n) + 1]],
        !.X = [i \in 1..n |-> Features(X[i])],
        !.y = y,
        !.n_features_in = Len(X[1])]

Abs(a) == IF a < 0 THEN -a ELSE a

Dist(a, b) == SumSeq([i \in 1..Len(a) |-> Abs(a[i] - b[i])])

\* one estimator: the label of the closest row of its bootstrap sample boot,
\* the first of them on a tie; dx[i] is the distance of training row i
TreePredict(m, boot, dx) ==
  LET best == CHOOSE j \in 1..Len(boot) :
                /\ \A k \in 1..Len(boot) : dx[boot[j]] <= dx[boot[k]]
                /\ \A k \in 1..(j - 1) : dx[boot[j]] < dx[boot[k]]
  IN m.y[boot[best]]

\* model.predict(X)[i]: the class with the most votes, the first on a tie
ForestPredict(m, x) ==
  LET dx    == [i \in 1..Len(m.X) |-> Dist(m.X[i], x)]
      vote  == [t \in 1..Len(m.estimators) |->
                 TreePredict(m, m.estimators[t], dx)]
      votes == [k \in 1..Len(m.classes) |->
                 Cardinality({t \in 1..Len(vote) : vote[t] = m.classes[k]})]
  IN m.classes[ArgMax(votes)]

\* accuracy_score(y_true, y_pred) as printed with {acc:.4f}: the share of
\* correct predictions in ten-thousandths, rounded
accuracy_score(y_true, y_pred) ==
  LET n       == Len(y_true)
      correct == Cardinality({i \in 1..n : y_true[i] = y_pred[i]})
  IN (correct * 10000 + n \div 2) \div n

\* classification_report(y_true, y_pred): per class, the counts its precision,
\* recall and support are computed from
classification_report(y_true, y_pred) ==
  LET n == Len(y_true)
      present == {y_true[i] : i \in 1..n} \cup {y_pred[i] : i \in 1..n}
  IN [c \in present |->
        [hit       |-> Cardinality({i \in 1..n : y_true[i] = c /\ y_pred[i] = c}),
         predicted |-> Cardinality({i \in 1..n : y_pred[i] = c}),
         support   |-> Cardinality({i \in 1..n : y_true[i] = c})]]

\* the bytes joblib.dump writes for a model: its class and its attributes
Pickle(m) ==
  <<"joblib", m.cls, m.n_estimators, m.random_state, m.fitted, m.classes,
    m.estimators, m.X, m.y>>

-----------------------------------------------------------------------------
(* Training script: state *)

Path(dir, name) == [dir |-> dir, name |-> name]

\* the script's path, the default of main(), and a path under a directory
\* that nothing creates
ArtifactsPath == Path("artifacts", "model.pkl")
DefaultPath == Path("", "model.pkl")
OutputPaths == {ArtifactsPath, DefaultPath, Path("out", "model.pkl")}

Dirs == {p.dir : p \in OutputPaths} \ {""}

\* the working directory always exists
DirExists(d) == d = "" \/ d \in fs.dirs

NoFile == [by |-> 0, content |-> <<>>]

NoFrame ==
  [output_path |-> DefaultPath, data |-> <<>>,
   X_train |-> <<>>, X_test |-> <<>>, y_train |-> <<>>, y_test |-> <<>>,
   model |-> Unbound, preds |-> <<>>, acc |-> -1]

InitTrain ==
  /\ tpc = "idle"
  /\ main = NoFrame
  /\ fs = [dirs |-> {}, files |-> [p \in OutputPaths |-> NoFile]]
  /\ stdout = <<>>
  /\ exc = "none"
  /\ entropy = 0
  /\ runs = 0
  /\ log = <<>>

-----------------------------------------------------------------------------
(* Training script: src/model.py *)

\* somebody creates a directory between runs
EnvMkdir(d) ==
  /\ tpc = "idle"
  /\ d \notin fs.dirs
  /\ fs' = [fs EXCEPT !.dirs = @ \cup {d}]
  /\ UNCHANGED <<tpc, main, stdout, exc, entropy, runs, log, serveVars>>

\* python model.py: the module runs as __main__
RunScript(e) ==
  /\ tpc = "idle"
  /\ runs < MaxRuns
  /\ runs' = runs + 1
  /\ entropy' = e
  /\ tpc' = "makedirs"
  /\ UNCHANGED <<main, fs, stdout, exc, log, serveVars>>

\* os.makedirs("artifacts", exist_ok=True); main(output_path="artifacts/model.pkl")
Makedirs ==
  /\ tpc = "makedirs"
  /\ fs' = [fs EXCEPT !.dirs = @ \cup {"artifacts"}]
  /\ main' = [NoFrame EXCEPT !.output_path = ArtifactsPath]
  /\ tpc' = "load"
  /\ UNCHANGED <<stdout, exc, entropy, runs, log, serveVars>>

\* main(output_path) called by an importing program; "model.pkl" by default
CallMain(e, p) ==
  /\ tpc = "idle"
  /\ runs < MaxRuns
  /\ runs' = runs + 1
  /\ entropy' = e
  /\ main' = [NoFrame EXCEPT !.output_path = p]
  /\ tpc' = "load"
  /\ UNCHANGED <<fs, stdout, exc, log, serveVars>>

\* data = load_iris(); X, y = data.data, data.target
MainLoadIris ==
  /\ tpc = "load"
  /\ main' = [main EXCEPT !.data = load_iris]
  /\ tpc' = "split"
  /\ UNCHANGED <<fs, stdout, exc, entropy, runs, log, serveVars>>

\* train_test_split(X, y, test_size=0.2, random_state=42)
MainSplit ==
  /\ tpc = "split"
  /\ LET s == train_test_split(main.data, test_size, random_state)
     IN main' = [main EXCEPT !.X_train = s.X_train, !.X_test = s.X_test,
                             !.y_train = s.y_train, !.y_test = s.y_test]
  /\ tpc' = "construct"
  /\ UNCHANGED <<fs, stdout, exc, entropy, runs, log, serveVars>>

\* mutant: the classifier is constructed without random_state
MainConstructUnseeded ==
  /\ tpc = "construct"
  /\ main' = [main EXCEPT !.model = RandomForestClassifier(n_estimators, -1)]
  /\ tpc' = "fit"
  /\ UNCHANGED <<fs, stdout, exc, entropy, runs, log, serveVars>>

\* model = RandomForestClassifier(n_estimators=50, random_state=42)
MainConstruct ==
  /\ tpc = "construct"
  /\ main' = [main EXCEPT
                !.model = RandomForestClassifier(n_estimators, random_state)]
  /\ tpc' = "fit"
  /\ UNCHANGED <<fs, stdout, exc, entropy, runs, log, serveVars>>

\* model.fit(X_train, y_train); an exception of the library is not caught
MainFit ==
  /\ tpc = "fit"
  /\ \/ /\ main' = [main EXCEPT !.model =
                      RandomForestFit(main.model, main.X_train, main.y_train,
                                      entropy)]
        /\ tpc' = "predict"
        /\ UNCHANGED exc
     \/ /\ exc' = "MemoryError"
        /\ tpc' = "aborted"
        /\ UNCHANGED main
  /\ UNCHANGED <<fs, stdout, entropy, runs, log, serveVars>>

\* preds = model.predict(X_test)
MainPredict ==
  /\ tpc = "predict"
  /\ main' = [main EXCEPT !.preds =
                [i \in 1..Len(main.X_test) |->
                   ForestPredict(main.model, Features(main.X_test[i]))]]
  /\ tpc' = "accuracy"
  /\ UNCHANGED <<fs, stdout, exc, entropy, runs, log, serveVars>>

\* acc = accuracy_score(y_test, preds)
MainAccuracy ==
  /\ tpc = "accuracy"
  /\ main' = [main EXCEPT !.acc = accuracy_score(main.y_test, main.preds)]
  /\ tpc' = "print_acc"
  /\ UNCHANGED <<fs, stdout, exc, entropy, runs, log, serveVars>>

\* print(f"[train.py] Test accuracy: {acc:.4f}")
MainPrintAccuracy ==
  /\ tpc = "print_acc"
  /\ stdout' = Append(stdout, <<"[train.py] Test accuracy: ", main.acc>>)
  /\ tpc' = "print_report"
  /\ UNCHANGED <<main, fs, exc, entropy, runs, log, serveVars>>

\* print(classification_report(y_test, preds))
MainPrintReport ==
  /\ tpc = "print_report"
  /\ stdout' = Append(stdout, <<"report",
                        classification_report(main.y_test, main.preds)>>)
  /\ tpc' = "dump"
  /\ UNCHANGED <<main, fs, exc, entropy, runs, log, serveVars>>

\* mutant: a failed write is swallowed and the script carries on
MainDumpIgnoreErrors ==
  /\ tpc = "dump"
  /\ IF DirExists(main.output_path.dir)
     THEN \/ fs' = [fs EXCEPT !.files[main.output_path] =
                      [by |-> runs, content |-> Pickle(main.model)]]
          \/ fs' = [fs EXCEPT !.files[main.output_path] =
                      [by |-> runs, content |-> <<>>]]
     ELSE UNCHANGED fs
  /\ tpc' = "print_saved"
  /\ UNCHANGED <<main, stdout, exc, entropy, runs, log, serveVars>>

\* joblib.dump(model, output_path): opens the path for writing, which needs
\* its directory, and writes the pickle; a write may fail half way
MainDump ==
  /\ tpc = "dump"
  /\ IF DirExists(main.output_path.dir)
     THEN \/ /\ fs' = [fs EXCEPT !.files[main.output_path] =
                         [by |-> runs, content |-> Pickle(main.model)]]
             /\ tpc' = "print_saved"
             /\ UNCHANGED exc
          \/ /\ fs' = [fs EXCEPT !.files[main.output_path] =
                         [by |-> runs, content |-> <<>>]]
             /\ exc' = "OSError"
             /\ tpc' = "aborted"
     ELSE /\ exc' = "FileNotFoundError"
          /\ tpc' = "aborted"
          /\ UNCHANGED fs
  /\ UNCHANGED <<main, stdout, entropy, runs, log, serveVars>>

\* print(f"[train.py] Saved model to {output_path}"); main returns
MainPrintSaved ==
  /\ tpc = "print_saved"
  /\ stdout' = Append(stdout, <<"[train.py] Saved model to ", main.output_path>>)
  /\ log' = Append(log, [path |-> main.output_path, stdout |-> stdout',
                         artifact |-> fs.files[main.output_path].content])
  /\ tpc' = "done"
  /\ UNCHANGED <<main, fs, exc, entropy, runs, serveVars>>

\* the process exits, normally or with the traceback of exc
Exit ==
  /\ tpc \in {"done", "aborted"}
  /\ tpc' = "idle"
  /\ main' = NoFrame
  /\ stdout' = <<>>
  /\ exc' = "none"
  /\ UNCHANGED <<fs, entropy, runs, log, serveVars>>

NextTrain ==
  \/ \E d \in Dirs : EnvMkdir(d)
  \/ \E e \in 0..MaxEntropy : RunScript(e)
  \/ Makedirs
  \/ \E e \in 0..MaxEntropy : \E p \in OutputPaths : CallMain(e, p)
  \/ MainLoadIris
  \/ MainSplit
  \/ MainConstruct
  \/ MainFit
  \/ MainPredict
  \/ MainAccuracy
  \/ MainPrintAccuracy
  \/ MainPrintReport
  \/ MainDump
  \/ MainPrintSaved
  \/ Exit

-----------------------------------------------------------------------------
(* Specifications *)

Init == InitServe /\ InitTrain

Next == NextServe \/ NextTrain

\* both programs
Spec == Init /\ [][Next]_vars

\* the prediction service alone
ServeSpec == Init /\ [][NextServe]_vars

\* the training script alone
TrainSpec == Init /\ [][NextTrain]_vars

-----------------------------------------------------------------------------
(* Reference values: what the module-level code computes at start *)

ReferenceSplit == train_test_split(load_iris, test_size, random_state)

ReferenceModel ==
  LogisticRegressionFit(ReferenceSplit.X_train, ReferenceSplit.y_train)

Answered(r) == req[r].route = "predict" /\ req[r].st \in {"returned", "responded"}

-----------------------------------------------------------------------------
(* Properties of the prediction service *)

\* C1: for every valid 4-element numeric feature vector the prediction
\* operation returns a label in {0, 1, 2}, and POST /predict answers 200 with
\* that label
PredictionInLabels ==
  \A r \in Slots :
    (Answered(r) /\ IsValidBody(req[r].body)) =>
      /\ req[r].out.ok
      /\ req[r].out.label \in Labels
      /\ req[r].st = "responded" =>
           (req[r].resp.status = 200 /\ req[r].resp.prediction \in Labels)

\* a valid vector has been answered with a label other than the first class
SomeValidAnswered ==
  \E r \in Slots :
    /\ req[r].st = "responded"
    /\ req[r].route = "predict"
    /\ IsValidBody(req[r].body)
    /\ req[r].resp.prediction > 0

\* C2: two prediction calls with the same feature vector return the same
\* outcome whatever calls were made in between, and no prediction call
\* changes what a later call returns for any vector
IdempotentPrediction ==
  /\ [](\A r, q \in Slots :
          (Answered(r) /\ Answered(q) /\ req[r].body = req[q].body) =>
            req[r].out = req[q].out)
  /\ [][pc = "ready" =>
          \A sample \in ValidSamples \cup MalformedSamples :
            train_and_predict(model', sample) = train_and_predict(model, sample)
       ]_vars

\* the same valid vector answered in both of two slots, one of them after the
\* response to the other
RepeatedCallAnswered ==
  /\ req[1].st = "responded"
  /\ req[2].st = "returned"
  /\ req[1].route = "predict"
  /\ req[2].route = "predict"
  /\ req[1].body = req[2].body
  /\ IsValidBody(req[1].body)

\* C3 (as claimed): a malformed POST /predict is answered with a 4xx status
MalformedGetsClientError ==
  \A r \in Slots :
    (/\ req[r].st = "responded"
     /\ req[r].route = "predict"
     /\ ~IsValidBody(req[r].body)) =>
      (req[r].resp.status >= 400 /\ req[r].resp.status <= 499)

\* C5: GET / is always answered with 200 and the fixed text, whatever
\* prediction requests were handled before or are in flight
HomeAlwaysRunning ==
  \A r \in Slots :
    (req[r].st = "responded" /\ req[r].route = "home") =>
      (req[r].resp.status = 200 /\ req[r].resp.text = HomeText)

\* GET / answered after a malformed prediction request ended in an error
HomeAfterFailedPrediction ==
  \E r, q \in Slots :
    /\ req[r].st = "responded"
    /\ req[r].route = "home"
    /\ req[q].st = "responded"
    /\ req[q].route = "predict"
    /\ ~req[q].out.ok

\* C7: the model is constructed and fitted once, by the module-level code;
\* once the module is loaded the model is the one fitted at start on the
\* seeded split, and no step writes the model or the split
ModelImmutableAfterStartup ==
  /\ [](pc = "ready" =>
          /\ model = ReferenceModel
          /\ X_train = ReferenceSplit.X_train
          /\ y_train = ReferenceSplit.y_train
          /\ X_test = ReferenceSplit.X_test
          /\ y_test = ReferenceSplit.y_test)
  /\ [][pc = "ready" => (model' = model /\ dataVars' = dataVars)]_vars
  /\ [][model' # model => (pc \in {"construct", "fit"} /\ pc' # pc)]_vars

\* train_and_predict has returned for a valid and for a malformed sample
CallsReturned ==
  /\ pc = "ready"
  /\ \E r, q \in Slots :
       /\ Answered(r) /\ req[r].out.ok
       /\ Answered(q) /\ req[q].body.present /\ ~req[q].out.ok

\* C8: the fit completes before the service is ready, so no request is taken
\* before the model is fitted and no call finds it unfitted; once ready the
\* service stays ready whatever requests arrive
ReadyOnlyAfterFit ==
  /\ [](pc = "ready" => model.fitted)
  /\ [](\A r \in Slots :
          /\ req[r].st # "idle" => (pc = "ready" /\ model.fitted)
          /\ req[r].out.exc # "NotFittedError")
  /\ [][pc = "ready" => pc' = "ready"]_vars

\* the service is ready and has answered a malformed and a valid request
ReadyAndServing ==
  /\ pc = "ready"
  /\ \E r, q \in Slots :
       /\ req[r].st = "responded" /\ req[r].resp.status = 500
       /\ req[q].st = "responded" /\ req[q].resp.status = 200
       /\ req[q].route = "predict"

\* C9: under every interleaving of the requests in flight, each prediction
\* request gets the outcome the model fitted at start gives its own input
ConcurrentPredictionsIndependent ==
  \A r \in Slots :
    (Answered(r) /\ req[r].body.present) =>
      req[r].out = train_and_predict(ReferenceModel, req[r].body.input)

\* two requests with different valid vectors were in flight together and both
\* calls have returned, with different labels
TwoInFlightAnswered ==
  /\ req[1].st = "returned"
  /\ req[2].st = "returned"
  /\ IsValidBody(req[1].body)
  /\ IsValidBody(req[2].body)
  /\ req[1].out.label # req[2].out.label

-----------------------------------------------------------------------------
(* Properties of the training script *)

Finished == tpc \in {"done", "aborted"}

SavedLine == <<"[train.py] Saved model to ", main.output_path>>

SavedPrinted == \E i \in 1..Len(stdout) : stdout[i][1] = SavedLine[1]

\* C4 (as claimed): main(output_path) creates the directory of output_path, so
\* unless the library or the disk fails the run ends with the artifact at
\* output_path
MainCreatesParentDirs ==
  (Finished /\ exc \notin {"MemoryError", "OSError"}) =>
    /\ tpc = "done"
    /\ fs.files[main.output_path].content = Pickle(main.model)

\* C6: two completed runs with the same output path printed the same lines
\* and wrote the same artifact, whatever the earlier runs left behind
DeterministicTraining ==
  \A i, j \in 1..Len(log) :
    log[i].path = log[j].path =>
      (log[i].stdout = log[j].stdout /\ log[i].artifact = log[j].artifact)

\* a second run completed on the path of the first, over its artifact
TwoRunsSamePath ==
  /\ Len(log) >= 2
  /\ log[1].path = log[2].path
  /\ log[2].artifact # <<>>

TrainingOrder ==
  { <<"idle", "makedirs">>, <<"makedirs", "load">>, <<"idle", "load">>,
    <<"load", "split">>, <<"split", "construct">>, <<"construct", "fit">>,
    <<"fit", "predict">>, <<"fit", "aborted">>, <<"predict", "accuracy">>,
    <<"accuracy", "print_acc">>, <<"print_acc", "print_report">>,
    <<"print_report", "dump">>, <<"dump", "print_saved">>,
    <<"dump", "aborted">>, <<"print_saved", "done">>,
    <<"done", "idle">>, <<"aborted", "idle">> }

\* C10: the run is the linear sequence load, split, fit, predict, print
\* accuracy, print report, dump, print saved; a failure of the fit or of the
\* write ends it there with the exception, nothing more is printed or written;
\* the artifact is written only after the fit and both prints, and the saved
\* line is printed only with the artifact of this run fully written
TrainingAbortsOnFailure ==
  /\ [][tpc' # tpc => <<tpc, tpc'>> \in TrainingOrder]_vars
  /\ [](tpc = "aborted" => (exc # "none" /\ ~SavedPrinted))
  /\ [][tpc = "aborted" => (stdout' = stdout \/ stdout' = <<>>) /\ fs' = fs]_vars
  /\ [][fs.files' # fs.files =>
          (tpc = "dump" /\ main.model.fitted /\ Len(stdout) = 2)]_vars
  /\ [](SavedPrinted =>
          /\ exc = "none"
          /\ fs.files[main.output_path] =
               [by |-> runs, content |-> Pickle(main.model)])

\* a run that completed after an earlier run was aborted
CompletedAfterAbortedRun ==
  /\ tpc = "done"
  /\ stdout[Len(stdout)] = SavedLine
  /\ runs = 2
  /\ Len(log) = 1

====
